---- MODULE Spec2Model ----
(***************************************************************************)
(* Model of src/app/main.py: the per-channel quiz session of QuizBot.      *)
(*                                                                         *)
(* Every invocation of the `quiz` command is a coroutine; the model keeps  *)
(* a pool of coroutine slots (Tasks).  One action of the model is the code *)
(* a coroutine runs between two suspension points (`await ctx.send`,       *)
(* `await self.wait_for`).  The oracle call of ask_question is a           *)
(* synchronous client call (line 53), so get_responses runs inside the     *)
(* step that handles the message.                                          *)
(*                                                                         *)
(* A message content is a sequence of characters; a character is a TLA+    *)
(* string.  The kana/kanji of the command words are written romanised.     *)
(***************************************************************************)
EXTENDS Integers, Sequences, FiniteSets, TLC

\* ------------------------------------------------------------------ bounds
MaxTasks == 2      \* coroutine slots: quiz invocations alive at the same time
Quantum  == 150    \* time units that pass in one Tick
TIMEOUT  == 300    \* wait_for(..., timeout=300.0)

Tasks    == 1..MaxTasks
Channels == {1, 2}

\* ------------------------------------------------------------ message text
\* str.lower() on the characters of the model's alphabet
LowerChar(ch) == IF ch = "A" THEN "a" ELSE IF ch = "Q" THEN "q" ELSE ch

Lower(s) == [k \in 1..Len(s) |-> LowerChar(s[k])]

StartsWith(s, pre) == Len(s) >= Len(pre) /\ SubSeq(s, 1, Len(pre)) = pre

TokEnd    == <<"!", "shuu", "ryou">>            \* "!終了"
TokSkip   == <<"!", "su", "ki", "ltu", "pu">>   \* "!スキップ"
TokAnswer == <<"!", "kai", "tou">>              \* "!解答"
TokHint   == <<"!", "hi", "n", "to">>           \* "!ヒント"
Bang      == <<"!">>
CmdQuiz   == <<"!", "q", "u", "i", "z">>        \* command_prefix + name

\* Python's None, as a value no message content equals
None == <<"None">>

\* The inbound contents the environment sends
TxtBangOther == <<"!", "shuu">>          \* "!"-prefixed, a proper prefix of a token
TxtEndMore   == <<"!", "shuu", "ryou", " ">>   \* a token followed by a blank
TxtQuestion  == <<"A", "a">>             \* free text, mixed case
TxtEmpty     == <<>>                     \* a message without text (attachment only)

Texts == {TokEnd, TokSkip, TokAnswer, TokHint, CmdQuiz,
          TxtBangOther, TxtEndMore, TxtQuestion, TxtEmpty}

\* (mutant) the reserved words matched as prefixes instead of in full
classifyByPrefix(raw) ==
    LET content == Lower(raw) IN
    IF StartsWith(content, TokEnd) THEN "End"
    ELSE IF StartsWith(content, TokSkip) THEN "Skip"
    ELSE IF StartsWith(content, TokAnswer) THEN "RevealAnswer"
    ELSE IF StartsWith(content, TokHint) THEN "HintRequest"
    ELSE IF StartsWith(content, Bang) THEN "Ignored"
    ELSE "Question"

\* The branch of the if/elif chain (lines 130-148) a content takes
classify(raw) ==
    LET content == Lower(raw) IN
    IF content = TokEnd THEN "End"
    ELSE IF content = TokSkip THEN "Skip"
    ELSE IF content = TokAnswer THEN "RevealAnswer"
    ELSE IF content = TokHint THEN "HintRequest"
    ELSE IF StartsWith(content, Bang) THEN "Ignored"
    ELSE "Question"

\* discord.py invokes the command when the content is the prefix followed by
\* the command name (and then nothing or a blank)
InvokesQuiz(raw) ==
    IF ~StartsWith(raw, CmdQuiz) THEN FALSE
    ELSE IF Len(raw) = Len(CmdQuiz) THEN TRUE
    ELSE raw[Len(CmdQuiz) + 1] = " "

\* ------------------------------------------------------------ puzzle source
\* Records of questions.json; the second one carries no 'Truth' field
P1 == [Question |-> "P1", Truth |-> "S1"]
P2 == [Question |-> "P2"]
P3 == [Truth |-> "S3"]

\* What json.load can return for the file, when it returns at all
Files == {<<P1>>, <<P1, P2, P3>>}

\* dict.get(key, default)
Get(rec, key, default) == IF key \in DOMAIN rec THEN rec[key] ELSE default

\* The orders random.shuffle can leave a list in
Shuffles(file) ==
    {qs \in [1..Len(file) -> {file[k] : k \in 1..Len(file)}] :
        \A k \in 1..Len(file) : \E j \in 1..Len(file) : qs[j] = file[k]}

\* current_problem before the first puzzle is presented (None)
NoProblem == [None |-> TRUE]

\* The entry line 100 stores
NewEntry == [previous_question |-> None, current_problem |-> NoProblem]

\* --------------------------------------------------------------- the oracle
\* What self.client.chat.completions.create can do: answer with text, answer
\* with text that strips to nothing, raise openai.APIError, raise anything else
OracleOutcomes == {"text", "blank", "APIError", "Exception"}

\* QuizGame.ask_question: the string it returns for each outcome
ask_question(outcome) ==
    CASE outcome = "text"      -> "reply"
      [] outcome = "blank"     -> ""
      [] outcome = "APIError"  -> "OpenAI API error: e"
      [] outcome = "Exception" -> "error: e"

\* Python truthiness of an Optional[str] (None and "" are false)
TruthyText(t) == t # None /\ t # <<>>

\* Python truthiness of a str
TruthyStr(s) == s # ""

\* One oracle round-trip, as the turn's log keeps it
Call(kind, problem, solution, previous, current, outcome) ==
    [kind |-> kind, problem |-> problem, solution |-> solution,
     previous |-> previous, current |-> current, outcome |-> outcome]

\* A variant of get_responses that asks the direct question again when the
\* first call failed
get_responsesRetry(problem, solution, current_question, previous_question, o1, o2) ==
    LET direct == Call("direct", problem, solution, None, current_question, o1)
        again == Call("direct", problem, solution, None, current_question, o2)
    IN  IF o1 \in {"APIError", "Exception"}
        THEN [regular |-> ask_question(o2), comparison |-> "",
              calls |-> <<direct, again>>]
        ELSE [regular |-> ask_question(o1), comparison |-> "",
              calls |-> <<direct>>]

\* QuizGame.get_responses: the two answers and the calls made
get_responses(problem, solution, current_question, previous_question, o1, o2) ==
    LET direct == Call("direct", problem, solution, None, current_question, o1)
        compare == Call("comparison", problem, solution, previous_question,
                        current_question, o2)
    IN  IF TruthyText(previous_question)
        THEN [regular |-> ask_question(o1), comparison |-> ask_question(o2),
              calls |-> <<direct, compare>>]
        ELSE [regular |-> ask_question(o1), comparison |-> "",
              calls |-> <<direct>>]

\* -------------------------------------------------------------------- state
VARIABLES
    API_KEY,            \* whether os.getenv("OPENAI_API_KEY") returned a value
    DISCORD_TOKEN,      \* whether os.getenv("DISCORD_TOKEN") returned a value
    active_games,       \* self.active_games: channel id -> entry
    pc,                 \* per task: the await it is suspended at ("idle": no coroutine)
    chan,               \* per task: ctx.channel.id
    questions,          \* per task: the shuffled list
    idx,                \* per task: i of enumerate(questions, 1)
    msg,                \* per task: msg.content of the message wait_for returned
    regular_answer,     \* per task: local of the Question branch
    comparison_answer,  \* per task: local of the Question branch
    idle,               \* per task: time spent in the current wait_for
    sent,               \* per task: what it sent since it last left wait_for
    calls,              \* per task: the oracle calls of the turn in progress
    exit                \* per task: how its last coroutine ended

vars == <<API_KEY, DISCORD_TOKEN, active_games, pc, chan, questions, idx, msg, regular_answer,
          comparison_answer, idle, sent, calls, exit>>

\* The module-level globals of lines 16 and 22
secrets == <<API_KEY, DISCORD_TOKEN>>

\* Lines 17-26 log and go on in either case; main() then builds the client
\* (line 178, QuizGame.__init__ line 34), and openai.OpenAI raises when it is
\* given no key
ClientConstructed == API_KEY

\* main() has reached uvicorn.run (line 186): the process is up
Serving == ClientConstructed

\* bot.start(DISCORD_TOKEN) of line 183 logs in only with a token; without
\* one the task fails and the process goes on serving
BotConnected == Serving /\ DISCORD_TOKEN

\* The awaits of `quiz` that are a ctx.send, by line
SendPcs == {"L97", "L109", "L113", "L121", "L122", "L133", "L137", "L141",
            "L145", "L157", "L159", "L164", "L168"}

\* The session loop proper: from the accepted start to its return
LoopPcs == (SendPcs \ {"L97", "L109"}) \cup {"L129", "L130"}

\* Locals of the puzzle being played (lines 116-117)
\* The defaults of the two question.get calls
NoQuestion == "no question found"
NoSolution == "no answer found"

\* A variant of solution that reads the other field of the record
solutionWrongKey(p) == Get(questions[p][idx[p]], "Question", NoSolution)

problem(p)  == Get(questions[p][idx[p]], "Question", NoQuestion)
solution(p) == Get(questions[p][idx[p]], "Truth", NoSolution)

\* An outbound message: which ctx.send, its interpolated text, its number
Msg(kind, body, n) == <<kind, body, n>>

HasEntry(p) == chan[p] \in DOMAIN active_games

Init ==
    /\ API_KEY \in BOOLEAN
    /\ DISCORD_TOKEN \in BOOLEAN
    /\ active_games = << >>
    /\ pc = [p \in Tasks |-> "idle"]
    /\ chan = [p \in Tasks |-> 1]
    /\ questions = [p \in Tasks |-> << >>]
    /\ idx = [p \in Tasks |-> 0]
    /\ msg = [p \in Tasks |-> None]
    /\ regular_answer = [p \in Tasks |-> ""]
    /\ comparison_answer = [p \in Tasks |-> ""]
    /\ idle = [p \in Tasks |-> 0]
    /\ sent = [p \in Tasks |-> << >>]
    /\ calls = [p \in Tasks |-> << >>]
    /\ exit = [p \in Tasks |-> "none"]

\* ------------------------------------------------------------ step helpers
\* The coroutine of task p is over: `how` says by which return or raise.
\* Its locals are gone; the slot keeps the last message it sent.
Finish(p, how) ==
    /\ pc' = [pc EXCEPT ![p] = "idle"]
    /\ exit' = [exit EXCEPT ![p] = how]
    /\ UNCHANGED chan
    /\ questions' = [questions EXCEPT ![p] = << >>]
    /\ idx' = [idx EXCEPT ![p] = 0]
    /\ msg' = [msg EXCEPT ![p] = None]
    /\ regular_answer' = [regular_answer EXCEPT ![p] = ""]
    /\ comparison_answer' = [comparison_answer EXCEPT ![p] = ""]
    /\ idle' = [idle EXCEPT ![p] = 0]
    /\ calls' = [calls EXCEPT ![p] = << >>]

\* An exception leaves `quiz`: nothing after the raising line runs
Raise(p, how) ==
    /\ Finish(p, how)
    /\ UNCHANGED <<active_games, sent>>

\* ctx.send(m) has completed
Sent(p, m) == sent' = [sent EXCEPT ![p] = Append(@, m)]

\* ctx.send(m) has completed and the coroutine ends right after
SentLast(p, m) == sent' = [sent EXCEPT ![p] = <<m>>]

\* del self.active_games[ctx.channel.id]
Del(g, c) == [k \in DOMAIN g \ {c} |-> g[k]]

\* self.active_games[c] = e
Put(g, c, e) == [k \in DOMAIN g \cup {c} |-> IF k = c THEN e ELSE g[k]]

\* The locals of a turn are dead once the turn is over
ClearTurn(p) ==
    /\ msg' = [msg EXCEPT ![p] = None]
    /\ regular_answer' = [regular_answer EXCEPT ![p] = ""]
    /\ comparison_answer' = [comparison_answer EXCEPT ![p] = ""]
    /\ calls' = [calls EXCEPT ![p] = << >>]
    /\ idle' = [idle EXCEPT ![p] = 0]

\* Back to the top of `while True`: wait_for registers its listener
Wait(p) ==
    /\ pc' = [pc EXCEPT ![p] = "L129"]
    /\ ClearTurn(p)

\* (mutant) the loop stopping one puzzle early
ExhaustedEarly(qs, k) == k >= Len(qs)

\* Whether enumerate(questions, 1) has nothing left for i = k
Exhausted(qs, k) == k > Len(qs)

\* The head of `for i, question in enumerate(questions, 1)` with i = k:
\* lines 116-121, or the fall-through to line 168 when the list is exhausted.
\* g is the registry as the caller leaves it.
Iterate(p, g, k) ==
    IF Exhausted(questions[p], k)
    THEN /\ pc' = [pc EXCEPT ![p] = "L168"]
         /\ active_games' = g
         /\ ClearTurn(p)
         /\ UNCHANGED <<idx, exit, questions, chan>>
    ELSE IF chan[p] \notin DOMAIN g
    THEN /\ Finish(p, "KeyError")
         /\ active_games' = g
    ELSE /\ pc' = [pc EXCEPT ![p] = "L121"]
         /\ idx' = [idx EXCEPT ![p] = k]
         /\ active_games' = [g EXCEPT ![chan[p]].current_problem = questions[p][k]]
         /\ ClearTurn(p)
         /\ UNCHANGED <<exit, questions, chan>>

\* ------------------------------------------------------------- environment
\* A variant of Listeners whose check does not look at the channel
ListenersAnyChannel(c, bot) ==
    {p \in Tasks : pc[p] = "L129" /\ ~bot /\ idle[p] < TIMEOUT}

\* A variant of Listeners that also hands a message to a turn in progress
ListenersMidTurn(c, bot) ==
    {p \in Tasks : pc[p] \in {"L129", "L145", "L157", "L159"} /\ chan[p] = c
                   /\ ~bot /\ idle[p] < TIMEOUT}

\* The listeners of wait_for whose check(m) passes for a message in channel c
\* (line 127); a wait whose 300 units have run out no longer listens
Listeners(c, bot) ==
    {p \in Tasks : pc[p] = "L129" /\ chan[p] = c /\ ~bot /\ idle[p] < TIMEOUT}

\* pc, msg and sent once the message is handed to the listeners
DeliverPc(c, bot)  == [p \in Tasks |-> IF p \in Listeners(c, bot) THEN "L130" ELSE pc[p]]
DeliverMsg(c, raw, bot) == [p \in Tasks |-> IF p \in Listeners(c, bot) THEN raw ELSE msg[p]]
DeliverSent(c, bot) == [p \in Tasks |-> IF p \in Listeners(c, bot) THEN << >> ELSE sent[p]]
DeliverIdle(c, bot) == [p \in Tasks |-> IF p \in Listeners(c, bot) THEN 0 ELSE idle[p]]

\* A message that invokes no command arrives in channel c
Message(c, raw, bot) ==
    /\ BotConnected
    /\ UNCHANGED secrets
    /\ ~InvokesQuiz(raw) \/ bot
    /\ pc' = DeliverPc(c, bot)
    /\ msg' = DeliverMsg(c, raw, bot)
    /\ sent' = DeliverSent(c, bot)
    /\ idle' = DeliverIdle(c, bot)
    /\ UNCHANGED <<active_games, chan, questions, idx, regular_answer,
                   comparison_answer, calls, exit>>

\* What the load and the shuffle can produce
Loads(Fs) ==
    {[ok |-> FALSE, list |-> << >>]}
        \cup {[ok |-> TRUE, list |-> qs] : qs \in UNION {Shuffles(f) : f \in Fs}}

\* (mutant) the test of line 96 dropped
AcceptsAlways(c) == TRUE

\* Whether `quiz` goes on past line 98 for channel c
Accepts(c) == c \notin DOMAIN active_games

\* "!quiz" arrives in channel c from a user: the listeners get it, and the
\* command runs in a new coroutine, in the first free slot p, up to its first
\* await (lines 95-113);
\* `load` is what open/json.load and the shuffle do
QuizCommand(c, raw, p, load) ==
    /\ BotConnected
    /\ UNCHANGED secrets
    /\ InvokesQuiz(raw)
    /\ pc[p] = "idle"
    /\ \A q \in Tasks : pc[q] = "idle" => p <= q
    /\ msg' = DeliverMsg(c, raw, FALSE)
    /\ idle' = DeliverIdle(c, FALSE)
    /\ sent' = [DeliverSent(c, FALSE) EXCEPT ![p] = << >>]
    /\ chan' = [chan EXCEPT ![p] = c]
    /\ exit' = [exit EXCEPT ![p] = "none"]
    /\ UNCHANGED <<idx, regular_answer, comparison_answer, calls>>
    /\ IF ~Accepts(c)
       THEN /\ pc' = [DeliverPc(c, FALSE) EXCEPT ![p] = "L97"]
            /\ UNCHANGED <<active_games, questions>>
       ELSE /\ active_games' = Put(active_games, c, NewEntry)
            /\ IF ~load.ok
               THEN /\ pc' = [DeliverPc(c, FALSE) EXCEPT ![p] = "L109"]
                    /\ UNCHANGED questions
               ELSE /\ pc' = [DeliverPc(c, FALSE) EXCEPT ![p] = "L113"]
                    /\ questions' = [questions EXCEPT ![p] = load.list]

\* Time passes for every pending wait_for; an expired one fires first
Tick ==
    /\ UNCHANGED secrets
    /\ \E p \in Tasks : pc[p] = "L129"
    /\ \A p \in Tasks : pc[p] = "L129" => idle[p] < TIMEOUT
    /\ idle' = [p \in Tasks |->
                  IF pc[p] # "L129" THEN idle[p]
                  ELSE IF idle[p] + Quantum >= TIMEOUT THEN TIMEOUT
                  ELSE idle[p] + Quantum]
    /\ UNCHANGED <<active_games, pc, chan, questions, idx, msg, regular_answer,
                   comparison_answer, sent, calls, exit>>

\* A variant of Timeout that does not wait for the 300 units to run out
TimeoutEarly(p) ==
    /\ UNCHANGED secrets
    /\ pc[p] = "L129"
    /\ pc' = [pc EXCEPT ![p] = "L164"]
    /\ idle' = [idle EXCEPT ![p] = 0]
    /\ sent' = [sent EXCEPT ![p] = << >>]
    /\ UNCHANGED <<active_games, chan, questions, idx, msg, regular_answer,
                   comparison_answer, calls, exit>>

\* wait_for raises asyncio.TimeoutError (line 163): on to the send of line 164
Timeout(p) ==
    /\ UNCHANGED secrets
    /\ pc[p] = "L129"
    /\ idle[p] >= TIMEOUT
    /\ pc' = [pc EXCEPT ![p] = "L164"]
    /\ idle' = [idle EXCEPT ![p] = 0]
    /\ sent' = [sent EXCEPT ![p] = << >>]
    /\ UNCHANGED <<active_games, chan, questions, idx, msg, regular_answer,
                   comparison_answer, calls, exit>>

\* ------------------------------------------------------- the quiz coroutine
\* Line 97 sent: the rejected invocation returns
StepAlready(p) ==
    /\ UNCHANGED secrets
    /\ pc[p] = "L97"
    /\ SentLast(p, Msg("already in progress", "", 0))
    /\ Finish(p, "AlreadyActive")
    /\ UNCHANGED active_games

\* Line 109 sent: the invocation returns (line 110)
StepLoadFail(p) ==
    /\ UNCHANGED secrets
    /\ pc[p] = "L109"
    /\ SentLast(p, Msg("load failed", "e", 0))
    /\ Finish(p, "LoadError")
    /\ UNCHANGED active_games

\* Line 113 sent: into the for loop
StepBanner(p) ==
    /\ UNCHANGED secrets
    /\ pc[p] = "L113"
    /\ Sent(p, Msg("banner", "", 0))
    /\ Iterate(p, active_games, 1)

\* Line 121 sent
StepProblem(p) ==
    /\ UNCHANGED secrets
    /\ pc[p] = "L121"
    /\ Sent(p, Msg("problem", problem(p), idx[p]))
    /\ pc' = [pc EXCEPT ![p] = "L122"]
    /\ UNCHANGED <<active_games, chan, questions, idx, msg, regular_answer,
                   comparison_answer, idle, calls, exit>>

\* Line 122 sent: into `while True`
StepHelp(p) ==
    /\ UNCHANGED secrets
    /\ pc[p] = "L122"
    /\ Sent(p, Msg("help", "", 0))
    /\ Wait(p)
    /\ UNCHANGED <<active_games, chan, questions, idx, exit>>

\* A variant of BranchPc that takes the hint for a skip
BranchPcHintSkips(kind) ==
    CASE kind = "End"          -> "L133"
      [] kind = "Skip"         -> "L137"
      [] kind = "RevealAnswer" -> "L141"
      [] kind = "HintRequest"  -> "L137"

\* The line the if/elif chain leads to, for the branches that send first
BranchPc(kind) ==
    CASE kind = "End"          -> "L133"
      [] kind = "Skip"         -> "L137"
      [] kind = "RevealAnswer" -> "L141"
      [] kind = "HintRequest"  -> "L145"

\* wait_for has returned msg: lines 130-155, up to the next await.
\* o1, o2 are what the oracle does on the calls get_responses makes.
Handle(p, o1, o2) ==
    /\ UNCHANGED secrets
    /\ pc[p] = "L130"
    /\ LET kind == classify(msg[p]) IN
       IF kind \in {"End", "Skip", "RevealAnswer", "HintRequest"}
       THEN /\ pc' = [pc EXCEPT ![p] = BranchPc(kind)]
            /\ UNCHANGED <<active_games, chan, questions, idx, msg, regular_answer,
                           comparison_answer, idle, sent, calls, exit>>
       ELSE IF kind = "Ignored"
       THEN /\ Wait(p)
            /\ UNCHANGED <<active_games, chan, questions, idx, sent, exit>>
       ELSE IF ~HasEntry(p)
       THEN Raise(p, "KeyError")
       ELSE LET r == get_responses(problem(p), solution(p), msg[p],
                                   active_games[chan[p]].previous_question, o1, o2)
            IN  /\ pc' = [pc EXCEPT ![p] = "L157"]
                /\ regular_answer' = [regular_answer EXCEPT ![p] = r.regular]
                /\ comparison_answer' = [comparison_answer EXCEPT ![p] = r.comparison]
                /\ calls' = [calls EXCEPT ![p] = r.calls]
                /\ UNCHANGED <<active_games, chan, questions, idx, msg, idle,
                               sent, exit>>

\* (mutant) a `del self.active_games[...]` left out
RegistryKept(g, c) == g

\* The registry as line 134 leaves it
RegistryAfterEnd(g, c) == Del(g, c)

\* Line 133 sent: lines 134-135
StepEnd(p) ==
    /\ UNCHANGED secrets
    /\ pc[p] = "L133"
    /\ SentLast(p, Msg("closing", "", 0))
    /\ IF HasEntry(p)
       THEN /\ active_games' = RegistryAfterEnd(active_games, chan[p])
            /\ Finish(p, "Terminated")
       ELSE /\ Finish(p, "KeyError")
            /\ UNCHANGED active_games

\* previous_question as lines 138 and 142 leave it
ClearedPrevious(prev) == None

\* A variant of StepSkip that presents the same puzzle again
StepSkipRepeats(p) ==
    /\ UNCHANGED secrets
    /\ pc[p] = "L137"
    /\ Sent(p, Msg("skip", "", 0))
    /\ IF HasEntry(p)
       THEN Iterate(p, [active_games EXCEPT ![chan[p]].previous_question =
                                               ClearedPrevious(@)], idx[p])
       ELSE /\ Finish(p, "KeyError")
            /\ UNCHANGED active_games

\* Line 137 sent: line 138, break, and the next iteration of the for loop
StepSkip(p) ==
    /\ UNCHANGED secrets
    /\ pc[p] = "L137"
    /\ Sent(p, Msg("skip", "", 0))
    /\ IF HasEntry(p)
       THEN Iterate(p, [active_games EXCEPT ![chan[p]].previous_question =
                                               ClearedPrevious(@)], idx[p] + 1)
       ELSE /\ Finish(p, "KeyError")
            /\ UNCHANGED active_games

\* Line 141 sent: line 142, break, and the next iteration of the for loop
StepAnswer(p) ==
    /\ UNCHANGED secrets
    /\ pc[p] = "L141"
    /\ Sent(p, Msg("answer", solution(p), 0))
    /\ IF HasEntry(p)
       THEN Iterate(p, [active_games EXCEPT ![chan[p]].previous_question =
                                               ClearedPrevious(@)], idx[p] + 1)
       ELSE /\ Finish(p, "KeyError")
            /\ UNCHANGED active_games

\* Line 145 sent: continue
StepHint(p) ==
    /\ UNCHANGED secrets
    /\ pc[p] = "L145"
    /\ Sent(p, Msg("hint not implemented", "", 0))
    /\ Wait(p)
    /\ UNCHANGED <<active_games, chan, questions, idx, exit>>

\* (mutant) line 161 storing the lower-cased `content` instead of msg.content
StoredPreviousLowered(p) == Lower(msg[p])

\* previous_question as line 161 leaves it
StoredPrevious(p) == msg[p]

\* Line 161, and back to the top of `while True`
Remember(p) ==
    IF HasEntry(p)
    THEN /\ active_games' = [active_games EXCEPT ![chan[p]].previous_question =
                                                   StoredPrevious(p)]
         /\ Wait(p)
         /\ UNCHANGED <<questions, idx, exit, chan>>
    ELSE /\ Finish(p, "KeyError")
         /\ UNCHANGED active_games

\* The test of line 158
WantsComparison(answer) == TruthyStr(answer)

\* Line 157 sent: line 158, then line 159 or line 161
StepMaster(p) ==
    /\ UNCHANGED secrets
    /\ pc[p] = "L157"
    /\ Sent(p, Msg("master", regular_answer[p], 0))
    /\ IF WantsComparison(comparison_answer[p])
       THEN /\ pc' = [pc EXCEPT ![p] = "L159"]
            /\ UNCHANGED <<active_games, chan, questions, idx, msg, regular_answer,
                           comparison_answer, idle, calls, exit>>
       ELSE Remember(p)

\* Line 159 sent: line 161
StepComparison(p) ==
    /\ UNCHANGED secrets
    /\ pc[p] = "L159"
    /\ Sent(p, Msg("evaluation", comparison_answer[p], 0))
    /\ Remember(p)

\* The registry as line 165 leaves it
RegistryAfterTimeout(g, c) == Del(g, c)

\* Line 164 sent: lines 165-166
StepTimeoutMsg(p) ==
    /\ UNCHANGED secrets
    /\ pc[p] = "L164"
    /\ SentLast(p, Msg("timed out", "", 0))
    /\ IF HasEntry(p)
       THEN /\ active_games' = RegistryAfterTimeout(active_games, chan[p])
            /\ Finish(p, "TimedOut")
       ELSE /\ Finish(p, "KeyError")
            /\ UNCHANGED active_games

\* The registry as line 169 leaves it
RegistryAfterCompletion(g, c) == Del(g, c)

\* Line 168 sent: line 169
StepCompletion(p) ==
    /\ UNCHANGED secrets
    /\ pc[p] = "L168"
    /\ SentLast(p, Msg("all done", "", 0))
    /\ IF HasEntry(p)
       THEN /\ active_games' = RegistryAfterCompletion(active_games, chan[p])
            /\ Finish(p, "Completed")
       ELSE /\ Finish(p, "KeyError")
            /\ UNCHANGED active_games

\* ctx.send raises (discord.HTTPException): only asyncio.TimeoutError is
\* caught (line 163), so the exception leaves `quiz`
SendFails(p) ==
    /\ UNCHANGED secrets
    /\ pc[p] \in SendPcs
    /\ Raise(p, "SendError")

\* ------------------------------------------------------------ specifications
\* One step of the coroutine of task p; Os is what the oracle may do
Step(p, Os) ==
    \/ StepAlready(p)
    \/ StepLoadFail(p)
    \/ StepBanner(p)
    \/ StepProblem(p)
    \/ StepHelp(p)
    \/ \E o1, o2 \in Os : Handle(p, o1, o2)
    \/ StepEnd(p)
    \/ StepSkip(p)
    \/ StepAnswer(p)
    \/ StepHint(p)
    \/ StepMaster(p)
    \/ StepComparison(p)
    \/ Timeout(p)
    \/ StepTimeoutMsg(p)
    \/ StepCompletion(p)

\* The bot in an environment that uses the channels Cs, sends the contents
\* Ts, holds one of the puzzle files Fs and whose oracle does one of Os
NextOn(Cs, Ts, Fs, Os) ==
    \/ \E c \in Cs, raw \in Ts, bot \in BOOLEAN : Message(c, raw, bot)
    \/ \E c \in Cs, raw \in Ts, p \in Tasks, load \in Loads(Fs) :
          QuizCommand(c, raw, p, load)
    \/ Tick
    \/ \E p \in Tasks : Step(p, Os)

\* One channel, every content, every file, every oracle outcome; the
\* transport keeps its contract (a send never raises)
Next == NextOn({1}, Texts, Files, OracleOutcomes)

Spec == Init /\ [][Next]_vars

\* The same, and ctx.send may raise
NextFaulty ==
    \/ Next
    \/ \E p \in Tasks : SendFails(p)

SpecFaulty == Init /\ [][NextFaulty]_vars

\* Two channels side by side, in a smaller environment
DuoTexts == {TokEnd, TokSkip, TokAnswer, TokHint, CmdQuiz, TxtQuestion}
DuoFiles == {<<P1>>}
DuoOutcomes == {"text", "APIError"}

NextDuo == NextOn(Channels, DuoTexts, DuoFiles, DuoOutcomes)

SpecDuo == Init /\ [][NextDuo]_vars

\* The event loop runs every coroutine that is ready, and fires a timer
\* that has expired
SpecLive == Spec /\ \A p \in Tasks : WF_vars(Step(p, OracleOutcomes))

\* ------------------------------------------------------------------ claims
\* The session loops running for channel c
LoopsOn(c) == {p \in Tasks : pc[p] \in LoopPcs /\ chan[p] = c}

\* previous_question of the entry of task p's channel
Previous(p) == active_games[chan[p]].previous_question

\* C1: at most one session loop runs per channel; a !quiz that finds an entry
\* for its channel is rejected with the already-in-progress message and
\* changes neither the registry nor the running session's puzzle list and
\* position.
C1_SingleSessionPerChannel ==
    /\ [](\A c \in Channels : Cardinality(LoopsOn(c)) <= 1)
    /\ [][\A p \in Tasks :
            /\ (pc[p] = "idle" /\ pc'[p] # "idle" /\ chan'[p] \in DOMAIN active_games)
                 => /\ pc'[p] = "L97"
                    /\ active_games' = active_games
                    /\ \A q \in LoopsOn(chan'[p]) :
                          /\ pc'[q] \in LoopPcs
                          /\ chan'[q] = chan[q]
                          /\ questions'[q] = questions[q]
                          /\ idx'[q] = idx[q]
            /\ (pc[p] = "L97" /\ pc'[p] # "L97")
                 => /\ sent'[p] = <<Msg("already in progress", "", 0)>>
                    /\ exit'[p] = "AlreadyActive"
                    /\ active_games' = active_games
         ]_vars

\* C1 witness: a !quiz is being rejected in a channel whose session holds a
\* previous question and has just been handed that very message
C1_Witness ==
    \E p, q \in Tasks :
        /\ pc[p] = "L97"
        /\ chan[q] = chan[p]
        /\ pc[q] = "L130"
        /\ msg[q] = CmdQuiz
        /\ HasEntry(q)
        /\ Previous(q) = TxtQuestion

\* C2: when the load of the puzzle source fails, the start aborts and leaves
\* no registry entry behind: while the failure is being reported, and after
\* it, the channel has an entry only if a session loop runs for it (so a
\* later !quiz is not rejected).
C2_LoadFailureLeavesNoEntry ==
    \A p \in Tasks :
        (pc[p] = "L109" \/ (pc[p] = "idle" /\ exit[p] = "LoadError"))
            => (chan[p] \in DOMAIN active_games => LoopsOn(chan[p]) # {})

\* What C3 allows previous_question of channel c to become in one step
C3_Step(c) ==
    c \in DOMAIN active_games' =>
        LET new == active_games'[c].previous_question IN
        IF c \notin DOMAIN active_games
        THEN new = None
        ELSE IF \E p \in LoopsOn(c) : pc[p] \in {"L137", "L141"} /\ pc'[p] # pc[p]
        THEN new = None
        ELSE IF \E p \in LoopsOn(c) : pc[p] \in {"L157", "L159"} /\ pc'[p] = "L129"
        THEN \A p \in LoopsOn(c) :
                (pc[p] \in {"L157", "L159"} /\ pc'[p] = "L129") => new = msg[p]
        ELSE new = active_games[c].previous_question

\* C3: previous_question is None at session creation and after every Skip
\* and RevealAnswer turn, becomes the raw text of a Question turn when that
\* turn completes, and is changed by nothing else (HintRequest and Ignored
\* turns included).
C3_PreviousQuestionTracksLastQuestion ==
    [][\A c \in Channels : C3_Step(c)]_vars

\* C3 witness: a HintRequest turn has just been answered and the mixed-case
\* question asked before it is still the previous question
C3_Witness ==
    \E p \in Tasks :
        /\ pc[p] = "L129"
        /\ sent[p] = <<Msg("hint not implemented", "", 0)>>
        /\ HasEntry(p)
        /\ Previous(p) = TxtQuestion

\* C4: in a Question turn the comparison call is made, and the evaluation
\* message sent, if and only if previous_question had been set (is not None)
\* when the turn began.
C4_ComparativeIffPrevious ==
    [][\A p \in Tasks :
          (pc[p] = "L157" /\ pc'[p] # "L157" /\ HasEntry(p))
              => /\ (Len(calls[p]) = 2) <=> (Previous(p) # None)
                 /\ (pc'[p] = "L159") <=> (Previous(p) # None)
      ]_vars

\* The outcomes of the oracle that are failures
Failures == {"APIError", "Exception"}

\* C5: a Question turn in which an oracle call failed still sends one message
\* per call made, the failed call's message carrying the error string, sets
\* previous_question to the raw text, keeps the puzzle and the registry
\* entry, and goes back to waiting.
C5_OracleFailureStillAnswers ==
    [][\A p \in Tasks :
          (/\ pc[p] \in {"L157", "L159"}
           /\ pc'[p] # pc[p]
           /\ \E k \in 1..Len(calls[p]) : calls[p][k].outcome \in Failures)
              => /\ pc'[p] \in {"L159", "L129"}
                 /\ idx'[p] = idx[p]
                 /\ questions'[p] = questions[p]
                 /\ chan[p] \in DOMAIN active_games'
                 /\ active_games'[chan[p]].current_problem
                        = active_games[chan[p]].current_problem
                 /\ pc'[p] = "L129"
                      => /\ Len(sent'[p]) = Len(calls[p])
                         /\ \A k \in 1..Len(calls[p]) :
                               calls[p][k].outcome \in Failures
                                  => sent'[p][k][2] = ask_question(calls[p][k].outcome)
                         /\ active_games'[chan[p]].previous_question = msg[p]
      ]_vars

\* The sends that belong to the handling of an inbound message
TurnSendPcs == {"L133", "L137", "L141", "L145", "L157", "L159"}

\* C6: a failure inside a turn does not end the session loop: a send of a
\* turn that raises leaves the loop running, with its registry entry and its
\* puzzle position.
C6_TurnFailureIsContained ==
    [][\A p \in Tasks :
          (pc[p] \in TurnSendPcs /\ pc'[p] # pc[p] /\ sent'[p] = sent[p])
              => /\ pc'[p] \in LoopPcs
                 /\ idx'[p] = idx[p]
                 /\ active_games' = active_games
      ]_vars

\* C7: a wait_for that has waited TIMEOUT units without a matching message
\* does nothing but time out, and a time-out happens only then; the handler
\* sends the time-out message, ends the coroutine and removes the registry
\* entry, at every puzzle position; and the expired wait does lead there.
C7_IdleTimeoutEndsSession ==
    /\ [][\A p \in Tasks :
            /\ (pc[p] = "L129" /\ idle[p] >= TIMEOUT /\ pc'[p] # "L129")
                 => pc'[p] = "L164"
            /\ (pc'[p] = "L164" /\ pc[p] # "L164")
                 => (pc[p] = "L129" /\ idle[p] >= TIMEOUT)
            /\ (pc[p] = "L164" /\ pc'[p] # "L164")
                 => /\ sent'[p] = <<Msg("timed out", "", 0)>>
                    /\ pc'[p] = "idle"
                    /\ exit'[p] = "TimedOut"
                    /\ chan[p] \notin DOMAIN active_games'
         ]_vars
    /\ \A p \in Tasks :
          (pc[p] = "L129" /\ idle[p] >= TIMEOUT)
              ~> (pc[p] = "idle" /\ exit[p] = "TimedOut"
                    /\ chan[p] \notin DOMAIN active_games)

\* C7 witness: the time-out has fired on the middle puzzle of three, with a
\* previous question set
C7_Witness ==
    \E p \in Tasks :
        /\ pc[p] = "L164"
        /\ Len(questions[p]) = 3
        /\ idx[p] = 2
        /\ HasEntry(p)
        /\ Previous(p) = TxtQuestion

\* C8: a Skip or RevealAnswer turn leads to the completion exactly when it
\* consumed the last puzzle of the list (the only one, for a list of one),
\* and nothing else does; the completion sends its message, ends the
\* coroutine and removes the registry entry; a channel without entry has no
\* loop, so no message there is handled as a command; and the turn on the
\* last puzzle does lead to the completed session.
C8_ExhaustionCompletes ==
    /\ [][\A p \in Tasks :
            /\ (pc[p] \in {"L137", "L141"} /\ pc'[p] # pc[p])
                 => ((pc'[p] = "L168") <=> (idx[p] = Len(questions[p])))
            /\ (pc'[p] = "L168" /\ pc[p] # "L168")
                 => pc[p] \in {"L137", "L141"}
            /\ (pc[p] = "L168" /\ pc'[p] # "L168")
                 => /\ sent'[p] = <<Msg("all done", "", 0)>>
                    /\ pc'[p] = "idle"
                    /\ exit'[p] = "Completed"
                    /\ chan[p] \notin DOMAIN active_games'
         ]_vars
    /\ [](\A c \in Channels : c \notin DOMAIN active_games => LoopsOn(c) = {})
    /\ \A p \in Tasks :
          (pc[p] \in {"L137", "L141"} /\ idx[p] = Len(questions[p]))
              ~> (pc[p] = "idle" /\ exit[p] = "Completed"
                    /\ chan[p] \notin DOMAIN active_games)

\* C8 witness: one Skip on a list of a single puzzle has led to the completion
C8_Witness ==
    \E p \in Tasks :
        /\ pc[p] = "L168"
        /\ Len(questions[p]) = 1
        /\ sent[p] = <<Msg("skip", "", 0)>>

\* C9: in a Question turn the direct answer is the first message sent and the
\* evaluation, when there is one, the second, with nothing in between; a
\* Question with no previous question sends only the direct answer, and a
\* Question that follows a Question sends the direct answer, then the
\* evaluation.
C9_DirectThenComparative ==
    [][\A p \in Tasks :
          /\ (pc[p] = "L157" /\ pc'[p] # "L157" /\ HasEntry(p))
               => /\ sent[p] = << >>
                  /\ sent'[p] = <<Msg("master", regular_answer[p], 0)>>
                  /\ Previous(p) = None => pc'[p] = "L129"
                  /\ Previous(p) # None => pc'[p] = "L159"
          /\ (pc[p] = "L159" /\ pc'[p] # "L159")
               => /\ sent[p] = <<Msg("master", regular_answer[p], 0)>>
                  /\ sent'[p] = <<Msg("master", regular_answer[p], 0),
                                  Msg("evaluation", comparison_answer[p], 0)>>
                  /\ pc'[p] = "L129"
      ]_vars

\* The reserved words of the session
Reserved == {TokEnd, TokSkip, TokAnswer, TokHint}

\* C10: the message wait_for returned is handled as End, Skip, RevealAnswer
\* or HintRequest exactly when its lower-cased content is that reserved word
\* in full, is dropped exactly when it starts with "!" and is no reserved
\* word, and is a Question otherwise; the oracle prompts and the stored
\* previous_question carry the content as it came, not lower-cased.
C10_ClassificationAndRawText ==
    [][\A p \in Tasks :
          /\ (pc[p] = "L130" /\ pc'[p] # "L130") =>
                LET raw == msg[p]
                    folded == Lower(raw)
                    banged == IF Len(raw) = 0 THEN FALSE ELSE raw[1] = "!"
                IN  /\ (pc'[p] = "L133") <=> (folded = TokEnd)
                    /\ (pc'[p] = "L137") <=> (folded = TokSkip)
                    /\ (pc'[p] = "L141") <=> (folded = TokAnswer)
                    /\ (pc'[p] = "L145") <=> (folded = TokHint)
                    /\ (pc'[p] = "L129") <=> (folded \notin Reserved /\ banged)
                    /\ (pc'[p] = "L157") <=> (folded \notin Reserved /\ ~banged)
                    /\ (pc'[p] = "L157") =>
                          /\ msg'[p] = raw
                          /\ Len(calls'[p]) >= 1
                          /\ \A k \in 1..Len(calls'[p]) : calls'[p][k].current = raw
          /\ (pc[p] = "L157" /\ pc'[p] = "L159") => msg'[p] = msg[p]
          /\ (pc[p] \in {"L157", "L159"} /\ pc'[p] = "L129")
                => active_games'[chan[p]].previous_question = msg[p]
      ]_vars

\* C10 witness: a mixed-case question is in the oracle prompt as it came
C10_Witness ==
    \E p \in Tasks :
        /\ pc[p] = "L157"
        /\ msg[p] = TxtQuestion
        /\ Lower(TxtQuestion) # TxtQuestion
        /\ calls[p][1].current = TxtQuestion

\* C11: a message whose lower-cased content is the end word, at whatever
\* puzzle the session is, leads to the send of the closing message and to
\* nothing else; once it is sent the coroutine is over with the session
\* terminated, the registry holds no entry for the channel and no loop is
\* left there to present a puzzle or to take a message; a !quiz in a channel
\* without entry is not turned away; and the end word does lead there.
C11_EndTerminatesSession ==
    /\ [][\A p \in Tasks :
            /\ (pc[p] = "L130" /\ Lower(msg[p]) = TokEnd /\ pc'[p] # "L130")
                 => pc'[p] = "L133"
            /\ (pc'[p] = "L133" /\ pc[p] # "L133")
                 => (pc[p] = "L130" /\ Lower(msg[p]) = TokEnd)
            /\ (pc[p] = "L133" /\ pc'[p] # "L133")
                 => /\ sent'[p] = <<Msg("closing", "", 0)>>
                    /\ pc'[p] = "idle"
                    /\ exit'[p] = "Terminated"
                    /\ chan[p] \notin DOMAIN active_games'
                    /\ \A q \in Tasks :
                          (chan'[q] = chan[p]) => (pc'[q] \notin LoopPcs)
            /\ (pc[p] = "idle" /\ pc'[p] # "idle"
                  /\ chan'[p] \notin DOMAIN active_games)
                 => /\ pc'[p] \in {"L109", "L113"}
                    /\ chan'[p] \in DOMAIN active_games'
         ]_vars
    /\ \A p \in Tasks :
          (pc[p] = "L130" /\ Lower(msg[p]) = TokEnd)
              ~> (pc[p] = "idle" /\ exit[p] = "Terminated"
                    /\ chan[p] \notin DOMAIN active_games)

\* C11 witness: the closing message is the last thing a finished coroutine
\* sent, and the registry is empty again
C11_Witness ==
    \E p \in Tasks :
        /\ pc[p] = "idle"
        /\ exit[p] = "Terminated"
        /\ sent[p] = <<Msg("closing", "", 0)>>
        /\ active_games = << >>

\* C12: a message whose lower-cased content is the hint word leads to the
\* send of the not-implemented message and to nothing else, and then back to
\* the wait; a message that starts with "!" and is no reserved word goes back
\* to the wait with nothing sent; neither turn changes the registry (current
\* puzzle and previous question included), the puzzle list, the position or
\* the way a coroutine ended, and neither calls the oracle.
C12_HintAndIgnoredChangeNothing ==
    [][\A p \in Tasks :
          LET folded == Lower(msg[p])
              banged == IF Len(msg[p]) = 0 THEN FALSE ELSE msg[p][1] = "!"
              same == /\ active_games' = active_games
                      /\ questions'[p] = questions[p]
                      /\ idx'[p] = idx[p]
                      /\ exit' = exit
                      /\ calls'[p] = << >>
          IN  /\ (pc[p] = "L130" /\ folded = TokHint /\ pc'[p] # "L130")
                   => (pc'[p] = "L145" /\ sent'[p] = << >> /\ same)
              /\ (pc[p] = "L145" /\ pc'[p] # "L145")
                   => /\ pc'[p] = "L129"
                      /\ sent'[p] = <<Msg("hint not implemented", "", 0)>>
                      /\ same
              /\ (pc[p] = "L130" /\ banged /\ folded \notin Reserved
                    /\ pc'[p] # "L130")
                   => (pc'[p] = "L129" /\ sent'[p] = << >> /\ same)
      ]_vars

\* C12 witness: the hint was asked on the second puzzle of three with a
\* previous question set, and the session waits again with all of it in place
C12_Witness ==
    \E p \in Tasks :
        /\ pc[p] = "L129"
        /\ sent[p] = <<Msg("hint not implemented", "", 0)>>
        /\ Len(questions[p]) = 3
        /\ idx[p] = 2
        /\ HasEntry(p)
        /\ Previous(p) = TxtQuestion
        /\ active_games[chan[p]].current_problem = questions[p][2]

\* Something of channel c changes in the step: its registry entry (current
\* puzzle and previous question included), or the position, the puzzle list,
\* the puzzle number or the message in hand of a coroutine of that channel
C13_Moved(c) ==
    \/ (c \in DOMAIN active_games) # (c \in DOMAIN active_games')
    \/ /\ c \in DOMAIN active_games
       /\ c \in DOMAIN active_games'
       /\ active_games'[c] # active_games[c]
    \/ \E p \in Tasks :
          /\ (pc[p] # "idle" /\ chan[p] = c) \/ (pc'[p] # "idle" /\ chan'[p] = c)
          /\ <<pc'[p], questions'[p], idx'[p], msg'[p]>>
                # <<pc[p], questions[p], idx[p], msg[p]>>

\* C13: with sessions in two channels and every interleaving of their
\* messages, turns, time-outs and ends, no step changes anything of both
\* channels: whatever happens in one channel leaves the other channel's
\* registry entry, current puzzle, puzzle list, position and previous
\* question as they were, and hands no message to the other channel's loop.
C13_ChannelsAreIndependent ==
    [][\A c, d \in Channels :
          (c # d) => ~(C13_Moved(c) /\ C13_Moved(d))]_vars

\* C13 witness: the session of one channel is being ended while the session
\* of the other channel waits with its previous question set
C13_Witness ==
    \E p, q \in Tasks :
        /\ chan[p] # chan[q]
        /\ pc[p] = "L133"
        /\ pc[q] = "L129"
        /\ HasEntry(q)
        /\ Previous(q) = TxtQuestion

\* C14: when the oracle API key or the chat token is absent from the
\* environment, the process does not come up: it never serves, no quiz
\* coroutine is ever started and no registry entry is ever made.
C14_MissingSecretIsFatal ==
    (~API_KEY \/ ~DISCORD_TOKEN) =>
        /\ ~Serving
        /\ active_games = << >>
        /\ \A p \in Tasks : pc[p] = "idle" /\ exit[p] = "none"

\* C15: a record without the 'Truth' (or the 'Question') field is presented
\* and played like any other: the puzzle message carries the record's
\* question or else the fixed placeholder, the answer message and every
\* oracle prompt of a turn carry the record's solution or else the fixed
\* placeholder, both read from the puzzle the registry holds as current.
C15_MissingFieldsHavePlaceholders ==
    [][\A p \in Tasks :
          LET cur == active_games[chan[p]].current_problem
              shown == IF "Question" \in DOMAIN cur THEN cur.Question
                       ELSE NoQuestion
              truth == IF "Truth" \in DOMAIN cur THEN cur.Truth ELSE NoSolution
          IN  /\ (pc[p] = "L121" /\ pc'[p] = "L122")
                   => sent'[p][Len(sent'[p])] = Msg("problem", shown, idx[p])
              /\ (pc[p] = "L141" /\ pc'[p] # "L141")
                   => sent'[p][1] = Msg("answer", truth, 0)
              /\ (pc[p] = "L130" /\ pc'[p] = "L157")
                   => \A k \in 1..Len(calls'[p]) :
                         /\ calls'[p][k].problem = shown
                         /\ calls'[p][k].solution = truth
      ]_vars

\* C15 witness: the answer of a record without 'Truth' was revealed as the
\* placeholder, and the next record, without 'Question', is then presented
\* as the placeholder
C15_Witness ==
    \E p \in Tasks :
        /\ pc[p] = "L122"
        /\ Len(sent[p]) = 2
        /\ sent[p][1] = Msg("answer", NoSolution, 0)
        /\ sent[p][2] = Msg("problem", NoQuestion, idx[p])

\* C16: the oracle is called only inside a Question turn: one direct call,
\* then at most one comparison call, and a call that failed is not made
\* again; at every other point of the session (the End, Skip, RevealAnswer,
\* HintRequest and dropped turns, the time-out, the waits) the turn has made
\* no call.
C16_OracleCallsPerTurn ==
    \A p \in Tasks :
        /\ (pc[p] \notin {"L157", "L159"}) => (calls[p] = << >>)
        /\ (pc[p] \in {"L157", "L159"}) =>
              /\ Len(calls[p]) \in {1, 2}
              /\ calls[p][1].kind = "direct"
              /\ (Len(calls[p]) = 2) => (calls[p][2].kind = "comparison")

\* C16 witness: both calls of a Question turn failed and each was made once
C16_Witness ==
    \E p \in Tasks :
        /\ pc[p] = "L157"
        /\ Len(calls[p]) = 2
        /\ calls[p][1].outcome \in Failures
        /\ calls[p][2].outcome \in Failures

\* C17: the puzzle list is fixed once shuffled; the puzzle number moves only
\* when the banner is sent (to the first puzzle) and when a Skip or a
\* RevealAnswer turn is done (to the next one), and a puzzle is presented
\* only then, as the one of that number; Question, HintRequest and dropped
\* turns leave the number alone; the registry's current puzzle is the one of
\* that number; and the list is exhausted by the turn that finds the number
\* equal to its length, after as many Skip/RevealAnswer turns as it has
\* puzzles.
C17_PuzzlesInShuffledOrder ==
    /\ [](\A p \in Tasks :
            (pc[p] \in LoopPcs /\ idx[p] >= 1 /\ HasEntry(p)) =>
                /\ idx[p] <= Len(questions[p])
                /\ active_games[chan[p]].current_problem = questions[p][idx[p]])
    /\ [][\A p \in Tasks :
            /\ (pc[p] \in LoopPcs /\ pc'[p] \in LoopPcs)
                 => questions'[p] = questions[p]
            /\ (pc[p] \in LoopPcs /\ pc'[p] \in LoopPcs /\ idx'[p] # idx[p])
                 => /\ pc[p] \in {"L113", "L137", "L141"}
                    /\ idx'[p] = idx[p] + 1
                    /\ pc'[p] = "L121"
            /\ (pc'[p] = "L121" /\ pc[p] # "L121")
                 => /\ pc[p] \in {"L113", "L137", "L141"}
                    /\ idx'[p] = idx[p] + 1
            /\ (pc[p] = "L121" /\ pc'[p] # "L121")
                 => /\ pc'[p] = "L122"
                    /\ sent'[p][Len(sent'[p])]
                          = Msg("problem", problem(p), idx[p])
            /\ (pc[p] \in {"L137", "L141"} /\ pc'[p] \in LoopPcs
                  /\ pc'[p] # pc[p])
                 => IF idx[p] < Len(questions[p])
                    THEN pc'[p] = "L121"
                    ELSE pc'[p] = "L168" /\ idx[p] = Len(questions[p])
         ]_vars

\* C17 witness: the third of three puzzles is presented after a Skip
C17_Witness ==
    \E p \in Tasks :
        /\ pc[p] = "L122"
        /\ Len(questions[p]) = 3
        /\ idx[p] = 3
        /\ sent[p][1] = Msg("skip", "", 0)
        /\ sent[p][2][1] = "problem"
        /\ sent[p][2][3] = 3

\* C18: the time-out is raised only out of a wait_for whose 300 units have
\* run out, never out of a turn in progress; the clock of a wait runs only
\* while the coroutine is suspended in it, and every wait, the one after a
\* dropped message or a hint included, starts at zero.
C18_TimeoutOnlyWhileWaiting ==
    /\ [](\A p \in Tasks : (pc[p] # "L129") => (idle[p] = 0))
    /\ [][\A p \in Tasks :
            /\ (pc'[p] = "L164" /\ pc[p] # "L164")
                 => (pc[p] = "L129" /\ idle[p] >= TIMEOUT)
            /\ (pc[p] \in LoopPcs \ {"L129", "L164"}) => (pc'[p] # "L164")
            /\ (pc'[p] = "L129" /\ pc[p] # "L129")
                 => /\ pc[p] \in {"L122", "L130", "L145", "L157", "L159"}
                    /\ idle'[p] = 0
            /\ (pc[p] = "L129" /\ pc'[p] = "L129")
                 => (idle'[p] >= idle[p] /\ idle'[p] <= TIMEOUT)
         ]_vars

\* C18 witness: the wait that followed a hint has run its full 300 units
C18_Witness ==
    \E p \in Tasks :
        /\ pc[p] = "L129"
        /\ sent[p] = <<Msg("hint not implemented", "", 0)>>
        /\ idle[p] = TIMEOUT

\* C19: the registry holds an entry for a channel exactly when a quiz
\* coroutine that made an entry is still running for that channel.
C19_EntryIffLoop ==
    \A c \in Channels :
        (c \in DOMAIN active_games)
            <=> (\E p \in Tasks : chan[p] = c /\ pc[p] \in LoopPcs \cup {"L109"})

\* C20: a message is taken only by a coroutine suspended in an unexpired
\* wait_for, one per wait; a coroutine that is in a turn keeps the message it
\* has, and whatever arrives meanwhile changes neither its puzzle number, nor
\* its registry entry, nor the calls it made; and nothing is kept for the
\* next wait, which starts with no message in hand.
C20_OneMessagePerWait ==
    /\ [](\A p \in Tasks : (pc[p] = "L129") => (msg[p] = None))
    /\ [][\A p \in Tasks :
            /\ (msg'[p] # msg[p] /\ msg'[p] # None)
                 => (pc[p] = "L129" /\ idle[p] < TIMEOUT /\ pc'[p] = "L130")
            /\ (pc'[p] = "L130" /\ pc[p] # "L130") => (pc[p] = "L129")
            /\ (pc[p] \in TurnSendPcs \cup {"L130"} /\ pc'[p] = pc[p])
                 => /\ msg'[p] = msg[p]
                    /\ idx'[p] = idx[p]
                    /\ calls'[p] = calls[p]
                    /\ HasEntry(p) =>
                          /\ chan[p] \in DOMAIN active_games'
                          /\ active_games'[chan[p]] = active_games[chan[p]]
         ]_vars

\* C20 witness: a !quiz came in while the session was in a Question turn; it
\* is being turned away, and the turn goes on with the question it had
C20_Witness ==
    \E p, q \in Tasks :
        /\ chan[p] = chan[q]
        /\ pc[q] = "L97"
        /\ pc[p] = "L159"
        /\ msg[p] = TxtQuestion
        /\ Len(calls[p]) = 2

====
